---- MODULE Spec2Model ----
(***************************************************************************)
(* multi-storage: the provider registry, the router, the read and delete  *)
(* operations and the write fan-out coordinator (MultiStorage.addProvider, *)
(* getProvidersSupportingScheme, getProviderForUrl, get, getStream,        *)
(* delete, post, postStream), modelled from the callback implementation in *)
(* src/unnamed/part_000.                                                   *)
(*                                                                         *)
(* One behaviour of the model holds one registry, at most one post call,   *)
(* at most one postStream call and at most one read or delete call; the    *)
(* variables of a call are the locals of its closure.  Spec is the write   *)
(* path, RegSpec the registry under arrays of arbitrary candidates,        *)
(* RouteSpec the router with the read and delete operations, OptSpec the   *)
(* write calls with their options, RoundTripSpec the routing of the URLs   *)
(* a write returned, AbortSpec and RepeatSpec postStream against providers *)
(* that fail to supply a stream or call back repeatedly, and OverlapSpec   *)
(* a second postStream call made while the first is in progress.           *)
(* Providers, the async library and the node stream library are the        *)
(* environment: a provider answers a write with any pair (err, url), at    *)
(* any time, once, unless the specification says otherwise.                *)
(***************************************************************************)
EXTENDS Integers, Sequences, FiniteSets, TLC

(* ------------------------------ bounds --------------------------------- *)

MaxProviders == 2      \* providers admitted in one behaviour
MaxLen == 2            \* length of the data handed to post
MaxWrites == 2         \* chunks written to the input channel of postStream
MaxCallbacks == 2      \* completion signals one postStream call may produce
MaxUuids == 2          \* identifiers uuid.v4 generates in one behaviour

(* ------------------------------ values --------------------------------- *)

Null == [kind |-> "null"]
Err(n) == [kind |-> "error", of |-> n]                \* an error a provider reports
Url(n) == [kind |-> "url", of |-> n]                  \* the URL a provider produces
CreateErr(n) == [kind |-> "createError", of |-> n]    \* part_000:379
AggregateErr(errs) == [kind |-> "aggregate", underlyingErrors |-> errs]  \* part_000:352-353

NoResult == [kind |-> "none"]

Names == 1 .. MaxProviders
PriorityChoices == {3}             \* explicit priorities a candidate may carry
RegPriorities == {-1, 0, 2}        \* further explicit priorities: negative, falsy, tying
BatchSizes == {0, 1, 2}            \* candidates handed to one addProvider call

\* strings are sequences of characters
Chars == {"a", "b", "A", "B", ":", "/"}
Upper(ch) == IF ch = "a" THEN "A" ELSE IF ch = "b" THEN "B" ELSE ch
Lower(ch) == IF ch = "A" THEN "a" ELSE IF ch = "B" THEN "b" ELSE ch
ToUpperCase(str) == [i \in 1 .. Len(str) |-> Upper(str[i])]
ToLowerCase(str) == [i \in 1 .. Len(str) |-> Lower(str[i])]

\* the scheme lists a candidate may declare
MockSchemes == << <<"a">> >>
SchemeLists ==
  { MockSchemes, << <<"A">>, <<"b">> >>, << <<"a", "b">> >>,
    << <<"B">>, <<"A", "b">> >>, << >> }
Bytes == {1, 2}
Chunks == {<<1>>, <<2, 2>>}        \* chunks the caller may write

\* the pairs (err, url) a provider may hand to its completion callback:
\* a URL, an error, or neither
Success(n) == [err |-> Null, url |-> Url(n)]
Failure(n) == [err |-> Err(n), url |-> Null]
Nothing == [err |-> Null, url |-> Null]
Outcomes(n) == {Success(n), Failure(n), Nothing}

IsNull(v) == v.kind = "null"

\* the errors an error value carries: an aggregate carries its list, any
\* other error carries itself
UnderlyingErrors(e) ==
  IF e.kind = "aggregate" THEN e.underlyingErrors
  ELSE IF e.kind = "null" THEN << >> ELSE << e >>

RECURSIVE SeqSum(_)
SeqSum(s) == IF s = << >> THEN 0 ELSE Len(Head(s)) + SeqSum(Tail(s))

(* ------------------------------ state ---------------------------------- *)

VARIABLES
  providers,      \* this._providers: sequence of [name, priority, schemes]
  offered,        \* history of the registry tests: the arrays handed to addProvider
  call,           \* which write call this behaviour has made: none, post, postStream
  \* ---- one post call (locals of MultiStorage.post)
  postData,       \* data
  postOrder,      \* names of this.providers at the call, in registry order
  postSettled,    \* name -> the provider's write: idle, pending, or settled with (err, url)
  postUrls,       \* urls
  postCompleted,  \* async.each: iteratee callbacks that reported no error
  postResult,     \* what the caller's callback received, NoResult before
  postCalls,      \* how often the caller's callback was invoked
  \* ---- one postStream call (locals of MultiStorage.postStream)
  psPc,           \* idle, creating (inside the for loop), returned, aborted
  psOrder,        \* names of this.providers at the call, in registry order
  handlers,       \* handlers: sequence of [name, stream, url, error]
  sinks,          \* name -> the writable stream the provider created
  pipes,          \* destinations the input channel is piped to
  flowing,        \* the input channel's readable side is in flowing mode
  written,        \* chunks the caller wrote to the input channel, in order
  inBuf,          \* chunks buffered in the input channel, not yet emitted
  receivedBytes,  \* receivedBytes
  chEnded,        \* the caller called end() on the input channel
  chFinished,     \* the input channel emitted 'finish'
  chEndEmitted,   \* the input channel emitted 'end'
  psResult,       \* what the caller's callback received, NoResult before
  psCalls,        \* how often the caller's callback was invoked
  \* ---- one read or delete call (getProvidersSupportingScheme,
  \* ---- getProviderForUrl, get, getStream, delete)
  rdCall,         \* the call made: [op, arg, encoding], op = "none" before
  rdInvoked,      \* provider operations invoked: sequence of [name, op, url, encoding]
  rdPending,      \* the provider operation has not called back yet
  rdAnswer,       \* history: what the provider handed to doneW, NoResult before
  rdReturned,     \* what the call returned to its caller
  rdStream,       \* the readable stream provider.getStream returned
  rdResult,       \* what the caller's callback received, NoResult before
  rdCalls,        \* how often the caller's callback was invoked
  \* ---- history of the option tests
  wr,             \* [uuids, given, options, invoked]: identifiers generated, the
                  \* options of the last call as given and as normalized, and
                  \* the write operations invoked on providers
  \* ---- a second postStream call made while the first is in progress
  second          \* [pc] before the call, then its locals and outcome: [pc,
                  \* order, handlers, called, receivedBytes, events, result,
                  \* calls]

postVars == << call, postData, postOrder, postSettled, postUrls, postCompleted,
               postResult, postCalls >>

psVars == << psPc, psOrder, handlers, sinks, pipes, flowing, written, inBuf,
             receivedBytes, chEnded, chFinished, chEndEmitted, psResult, psCalls >>

routeVars == << rdCall, rdInvoked, rdPending, rdAnswer, rdReturned, rdStream, rdResult,
               rdCalls >>

vars == << providers, offered, call, postData, postOrder, postSettled, postUrls,
           postCompleted, postResult, postCalls, psPc, psOrder, handlers,
           sinks, pipes, flowing, written, inBuf, receivedBytes, chEnded,
           chFinished, chEndEmitted, psResult, psCalls, rdCall, rdInvoked,
           rdPending, rdAnswer, rdReturned, rdStream, rdResult, rdCalls, wr,
           second >>

(* ----------------------------- registry -------------------------------- *)

\* Array.prototype.sort with (a, b) => b.priority - a.priority: stable,
\* descending by priority
\* an entry is placed before the entries of equal priority
RECURSIVE InsertDesc_BeforeEqual(_, _)
InsertDesc_BeforeEqual(sorted, p) ==
  IF sorted = << >> THEN << p >>
  ELSE IF Head(sorted).priority > p.priority
       THEN << Head(sorted) >> \o InsertDesc_BeforeEqual(Tail(sorted), p)
       ELSE << p >> \o sorted

RECURSIVE InsertDesc(_, _)
InsertDesc(sorted, p) ==
  IF sorted = << >> THEN << p >>
  ELSE IF Head(sorted).priority >= p.priority
       THEN << Head(sorted) >> \o InsertDesc(Tail(sorted), p)
       ELSE << p >> \o sorted

SortDesc_AppendOnly(s) == s

RECURSIVE SortDesc(_)
SortDesc(s) ==
  IF s = << >> THEN << >>
  ELSE InsertDesc(SortDesc(SubSeq(s, 1, Len(s) - 1)), s[Len(s)])

\* what the interface check of addProvider looks at
Capabilities ==
  {"name", "schemes", "get", "getStream", "post", "postStream", "delete"}

\* a candidate handed to addProvider.  lacks holds the properties and
\* functions the object does not have; name identifies the object also when
\* its name property is undefined; hasPriority is FALSE when the priority
\* property is absent
Candidates(n) ==
  { [name |-> n, lacks |-> l, hasPriority |-> h, priority |-> p, schemes |-> ss] :
      l \in {{}} \cup {{c} : c \in Capabilities} \cup {{"get", "post"}},
      h \in BOOLEAN, p \in PriorityChoices \cup RegPriorities,
      ss \in SchemeLists }

\* part_000:57-87: the filter callback of addProvider
Conforms_NoDeleteCheck(c) ==
  /\ "name" \notin c.lacks
  /\ "schemes" \notin c.lacks
  /\ "get" \notin c.lacks
  /\ "getStream" \notin c.lacks
  /\ "post" \notin c.lacks
  /\ "postStream" \notin c.lacks

Conforms(c) ==
  /\ "name" \notin c.lacks
  /\ "schemes" \notin c.lacks
  /\ "get" \notin c.lacks
  /\ "getStream" \notin c.lacks
  /\ "post" \notin c.lacks
  /\ "postStream" \notin c.lacks
  /\ "delete" \notin c.lacks

Admit_DefaultOne(reg, c) ==
  Append(reg, [name |-> c.name,
               priority |-> IF (~c.hasPriority) \/ c.priority = 0
                            THEN 1 ELSE c.priority,
               schemes |-> c.schemes])

\* the default is computed after the push
Admit_AfterInsert(reg, c) ==
  Append(reg, [name |-> c.name,
               priority |-> IF (~c.hasPriority) \/ c.priority = 0
                            THEN Len(reg) + 2 ELSE c.priority,
               schemes |-> c.schemes])

\* part_000:89-96 for one conforming provider: !provider.priority holds for
\* an absent priority and for priority 0
Admit(reg, c) ==
  Append(reg, [name |-> c.name,
               priority |-> IF (~c.hasPriority) \/ c.priority = 0
                            THEN Len(reg) + 1 ELSE c.priority,
               schemes |-> c.schemes])

\* part_000:89-96: forEach over the conforming providers
RECURSIVE AdmitAll(_, _)
AdmitAll(reg, cs) ==
  IF cs = << >> THEN reg ELSE AdmitAll(Admit(reg, Head(cs)), Tail(cs))

\* part_000:45-102: this._providers after addProvider(batch)
AddProviderResult(reg, batch) ==
  SortDesc(AdmitAll(reg, SelectSeq(batch, Conforms)))

\* a conforming provider as the tests of the write operations register it
MockCandidates(n) ==
  { [name |-> n, lacks |-> {}, hasPriority |-> FALSE, priority |-> 0,
     schemes |-> MockSchemes] }
  \cup { [name |-> n, lacks |-> {}, hasPriority |-> TRUE, priority |-> p,
          schemes |-> MockSchemes] : p \in PriorityChoices }

\* addProvider(provider) before and between the write calls
AddProvider ==
  /\ psPc # "creating"
  /\ Len(providers) < MaxProviders
  /\ \E c \in MockCandidates(Len(providers) + 1) :
       providers' = AddProviderResult(providers, << c >>)
  /\ UNCHANGED << offered, wr, second, postVars, psVars, routeVars >>

\* candidates of the registry tests: any capability may be missing, any
\* priority given; an absent priority is written as hasPriority = FALSE
\* with priority 0
RegCandidates(n) ==
  { c \in Candidates(n) :
      /\ c.schemes = MockSchemes
      /\ c.hasPriority \/ c.priority = 0
      /\ c.priority \in RegPriorities }

RECURSIVE Batches(_, _)
Batches(first, k) ==
  IF k = 0 THEN { << >> }
  ELSE { << c >> \o b : c \in RegCandidates(first), b \in Batches(first + 1, k - 1) }

\* candidates handed over so far; the next candidate object is OfferedCount + 1
OfferedCount == SeqSum(offered)

\* addProvider with an array of candidates (test/multi-storage.js:134-212);
\* the array is recorded in offered
AddProviders ==
  /\ Len(offered) < MaxProviders
  /\ \E k \in BatchSizes :
       /\ OfferedCount + k <= MaxProviders
       /\ \E batch \in Batches(OfferedCount + 1, k) :
            /\ providers' = AddProviderResult(providers, batch)
            /\ offered' = Append(offered, batch)
  /\ UNCHANGED << wr, second, postVars, psVars, routeVars >>

RegistryNames == { providers[i].name : i \in 1 .. Len(providers) }
NamesOf(reg) == [i \in 1 .. Len(reg) |-> reg[i].name]

(* ------------------------------ options -------------------------------- *)

\* the k-th identifier uuid.v4() returns: identifiers differ from each other
\* and hold no %
UuidDigits == << "0", "1", "2", "3" >>
Uuid(k) == << "u", UuidDigits[k] >>

\* file names a caller may give: "", "n", "n.", "%", "%.", "n%.", "%%",
\* "n%n%"
NameInputs ==
  { << >>, <<"n">>, <<"n", ".">>, <<"%">>, <<"%", ".">>, <<"n", "%", ".">>,
    <<"%", "%">>, <<"n", "%", "n", "%">> }

\* the options object a caller may pass: has holds the properties the
\* object has, the value of a property it does not have is not looked at
OptionInputs ==
  { [has |-> h, encoding |-> e, path |-> p, name |-> n] :
      h \in SUBSET {"encoding", "path", "name"},
      e \in {"utf-16"}, p \in {"", "path/subpath"}, n \in NameInputs }

\* post and postStream called without options: part_000:293-295
NoOptions == [has |-> {}, encoding |-> "utf-16", path |-> "", name |-> << >>]

\* options given in canonical form: properties the object does not have
\* carry the values of NoOptions
GivenOptions ==
  { o \in OptionInputs :
      /\ "encoding" \notin o.has => o.encoding = NoOptions.encoding
      /\ "path" \notin o.has => o.path = NoOptions.path
      /\ "name" \notin o.has => o.name = NoOptions.name }

HasPlaceholder(name) == \E i \in 1 .. Len(name) : name[i] = "%"

\* String.prototype.replace with a string pattern: the first occurrence
ReplaceFirst_All(name, by) ==
  LET RECURSIVE Rep(_)
      Rep(str) ==
        IF str = << >> THEN << >>
        ELSE (IF Head(str) = "%" THEN by ELSE << Head(str) >>) \o Rep(Tail(str))
  IN Rep(name)

ReplaceFirst(name, by) ==
  LET i == CHOOSE k \in 1 .. Len(name) :
              name[k] = "%" /\ \A j \in 1 .. k - 1 : name[j] # "%"
  IN SubSeq(name, 1, i - 1) \o by \o SubSeq(name, i + 1, Len(name))

\* part_000:271: !options.name holds for an absent and for an empty name
NameMissing(given) == "name" \notin given.has \/ given.name = << >>

\* optionsForOptions calls uuid.v4()
NeedsUuid(given) == NameMissing(given) \/ HasPlaceholder(given.name)

\* part_000:266-269: _.extend({encoding: 'utf-8', path: ''}, options)
Extend_DefaultsWin(given) ==
  [encoding |-> "utf-8", path |-> "", name |-> given.name]

Extend(given) ==
  [encoding |-> IF "encoding" \in given.has THEN given.encoding ELSE "utf-8",
   path |-> IF "path" \in given.has THEN given.path ELSE "",
   name |-> given.name]

\* part_000:265-278: optionsForOptions when k identifiers were generated
\* before
OptionsForOptions(given, k) ==
  [Extend(given) EXCEPT
     !.name = IF NameMissing(given) THEN Uuid(k + 1)
              ELSE IF HasPlaceholder(given.name)
                   THEN ReplaceFirst(given.name, Uuid(k + 1))
                   ELSE given.name]

\* no write call made yet: no options were given or normalized
NoWrites == [uuids |-> 0, called |-> FALSE, invoked |-> << >>]

\* wr after optionsForOptions(given)
Normalized(given) ==
  [uuids |-> IF NeedsUuid(given) THEN wr.uuids + 1 ELSE wr.uuids,
   called |-> TRUE,
   given |-> given,
   options |-> OptionsForOptions(given, wr.uuids),
   invoked |-> wr.invoked]

WriteInvocation(n, op, data, options) ==
  [name |-> n, op |-> op, data |-> data, options |-> options]

\* test/multi-storage.js:45-98: optionsForOptions called by itself
OptionsCall ==
  /\ call = "none"
  /\ \E given \in GivenOptions :
       /\ NeedsUuid(given) => wr.uuids < MaxUuids
       /\ wr' = Normalized(given)
  /\ UNCHANGED << providers, offered, routeVars, second, postVars, psVars >>

(* ------------------------------- post ---------------------------------- *)

DataValues == UNION { [1 .. k -> Bytes] : k \in 0 .. MaxLen }

Idle == [state |-> "idle", err |-> Null, url |-> Null]
Pending == [state |-> "pending", err |-> Null, url |-> Null]
Settled(o) == [state |-> "settled", err |-> o.err, url |-> o.url]

\* part_000:307-314: the final callback of async.each
PostFinal(err, urls, data) ==
  [kind |-> "result", err |-> err, urls |-> urls,
   bytes |-> IF IsNull(err) THEN Len(data) ELSE 0]

\* part_000:297-306: async.each starts provider.post for every provider
PostBegin(d) ==
  /\ call' = "post"
  /\ postData' = d
  /\ postOrder' = NamesOf(providers)
  /\ postSettled' = [n \in Names |->
                       IF n \in RegistryNames THEN Pending ELSE Idle]
  /\ postUrls' = << >>
  /\ postCompleted' = 0
  \* async.each over an empty collection calls back at once
  /\ IF Len(providers) = 0
     THEN /\ postResult' = PostFinal(Null, << >>, d)
          /\ postCalls' = 1
     ELSE /\ postResult' = NoResult
          /\ postCalls' = 0

\* part_000:289-306: post(data, callback)
PostCallFrom(ds) ==
  /\ call = "none"
  /\ \E d \in ds : PostBegin(d)
  /\ UNCHANGED << providers, offered, routeVars, wr, second, psVars >>

PostCall == PostCallFrom(DataValues)

\* part_000:297-299: the provider operations async.each invokes
PostInvocations_FirstOnly(reg, d, options) ==
  IF reg = << >> THEN << >>
  ELSE << WriteInvocation(reg[1].name, "post", d, options) >>

PostInvocations(reg, d, options) ==
  [i \in 1 .. Len(reg) |-> WriteInvocation(reg[i].name, "post", d, options)]

\* part_000:289-306: post(data, options, callback), with the options
\* normalized and the invoked operations recorded in wr
PostOptionsCall ==
  /\ call = "none"
  /\ \E d \in DataValues, given \in GivenOptions :
       /\ NeedsUuid(given) => wr.uuids < MaxUuids
       /\ PostBegin(d)
       /\ wr' = [Normalized(given) EXCEPT
                   !.invoked = wr.invoked \o
                      PostInvocations(providers, d, Normalized(given).options)]
  /\ UNCHANGED << providers, offered, routeVars, second, psVars >>

\* the URL is assigned instead of pushed
PostPushUrl_Assign(urls, url) == IF IsNull(url) THEN urls ELSE << url >>

\* part_000:302-304
PostPushUrl(urls, url) == IF IsNull(url) THEN urls ELSE Append(urls, url)

\* async.each: the final callback runs on the first error, or when every
\* iteratee has called back without error; it runs once
EachDone_AllCompleted(err, completed, length) == completed = length

EachDone(err, completed, length) == (~IsNull(err)) \/ completed = length

\* part_000:301-306: provider n calls back with (err, url)
PostProviderCallback(n) ==
  /\ call = "post"
  /\ postSettled[n].state = "pending"
  /\ \E o \in Outcomes(n) :
       LET urls == PostPushUrl(postUrls, o.url)
           completed == IF IsNull(o.err) THEN postCompleted + 1 ELSE postCompleted
       IN /\ postSettled' = [postSettled EXCEPT ![n] = Settled(o)]
          /\ postUrls' = urls
          /\ postCompleted' = completed
          /\ IF EachDone(o.err, completed, Len(postOrder)) /\ postCalls = 0
             THEN /\ postResult' = PostFinal(o.err, urls, postData)
                  /\ postCalls' = postCalls + 1
             ELSE UNCHANGED << postResult, postCalls >>
  /\ UNCHANGED << providers, offered, routeVars, wr, second, call, postData, postOrder, psVars >>

(* ---------------------------- postStream ------------------------------ *)

\* the stream object a provider returned, and the handler object that holds
\* it, are different objects
StreamOf(n) == [obj |-> "stream", of |-> n]
HandlerOf(n) == [obj |-> "handler", of |-> n]

NoSink == [created |-> FALSE, mode |-> "none", received |-> << >>,
           ended |-> FALSE, finished |-> FALSE, errored |-> FALSE,
           calledBack |-> FALSE]

\* how a provider answers postStream(options, callback):
\*   good    returns a stream; calls back (null, url) when the stream finished
\*   free    returns a stream; calls back any (err, url) at any later time,
\*           and its stream may emit an error
\*   sync    calls back inside postStream, before it returns the stream
\*   error   returns an Error
\*   nothing returns null or undefined
Behaviours == {"good", "free", "sync", "error", "nothing"}

\* part_000:372
NewHandler(n) == [name |-> n, stream |-> FALSE, url |-> Null, error |-> Null]

\* part_000:341-342
Unfinished(hs) == SelectSeq(hs, LAMBDA h : IsNull(h.error) /\ IsNull(h.url))
Finished(hs) == SelectSeq(hs, LAMBDA h : (~IsNull(h.error)) \/ (~IsNull(h.url)))

\* the check for unfinished handlers is left out
AllTerminal_AnyFinished(hs) == Len(Finished(hs)) > 0

\* part_000:343: the session is complete
\* the check for at least one finished handler is left out
AllTerminal_NoneUnfinished(hs) == Len(Unfinished(hs)) = 0

AllTerminal(hs) == Len(Unfinished(hs)) = 0 /\ Len(Finished(hs)) > 0

MapUrl(hs) == [i \in 1 .. Len(hs) |-> hs[i].url]
MapError(hs) == [i \in 1 .. Len(hs) |-> hs[i].error]

\* the handler table and the byte counter are kept on the coordinator, for
\* all calls together
Aggregate_Shared(hs, bytes) ==
  LET all == IF second.pc = "idle" THEN hs ELSE hs \o second.handlers
      urls == MapUrl(SelectSeq(all, LAMBDA h : ~IsNull(h.url)))
      errors == MapError(SelectSeq(all, LAMBDA h : ~IsNull(h.error)))
  IN [kind |-> "result",
      err |-> IF Len(errors) > 0 THEN AggregateErr(errors) ELSE Null,
      urls |-> urls,
      bytes |-> IF second.pc = "idle" THEN bytes ELSE bytes + second.receivedBytes]

\* part_000:344-355: the arguments of the caller's callback
Aggregate(hs, bytes) ==
  LET urls == MapUrl(SelectSeq(hs, LAMBDA h : ~IsNull(h.url)))
      errors == MapError(SelectSeq(hs, LAMBDA h : ~IsNull(h.error)))
  IN [kind |-> "result",
      err |-> IF Len(errors) > 0 THEN AggregateErr(errors) ELSE Null,
      urls |-> urls, bytes |-> bytes]

\* the callback acts without looking at handler.stream
HandlerAccepts_Always(h) == TRUE

\* part_000:361: the callback of a handler acts only once the handler
\* holds its stream
HandlerAccepts(h) == h.stream

\* the callback records its arguments whether or not the handler holds its
\* stream
HandlerCallback_Unchecked(hs, n, o) ==
  [i \in 1 .. Len(hs) |->
     IF hs[i].name = n
     THEN [hs[i] EXCEPT !.error = o.err, !.url = o.url]
     ELSE hs[i]]

\* part_000:360-366: the callback created for provider n is called with o;
\* a handler that is no longer in handlers changes nothing the call can see
HandlerCallback(hs, n, o) ==
  [i \in 1 .. Len(hs) |->
     IF hs[i].name = n /\ HandlerAccepts(hs[i])
     THEN [hs[i] EXCEPT !.error = o.err, !.url = o.url]
     ELSE hs[i]]

\* part_000:361-364: handleProviderCallsBack runs only inside an accepted
\* callback; a handler dropped from handlers by an abort held its stream
CallbackRuns(hs, n) == \A i \in 1 .. Len(hs) : hs[i].name = n => HandlerAccepts(hs[i])

\* only a returned Error aborts, a missing stream does not
CreationFailed_ErrorOnly(b) == b = "error"

\* part_000:377: the provider returned nothing usable or an Error
CreationFailed(b) == b \in {"error", "nothing"}

\* part_000:379: the error of an aborted creation
CreationError(b, n) == IF b = "error" THEN Err(n) ELSE CreateErr(n)

\* chunks are counted instead of bytes
CountBytes_Chunks(bytes, chunk) == bytes + 1

\* part_000:393
CountBytes(bytes, chunk) == bytes + Len(chunk)

\* part_000:327-337 with the options normalized (part_000:331) and
\* recorded in wr
PostStreamOptionsCall ==
  /\ call = "none"
  /\ call' = "postStream"
  /\ psPc' = "creating"
  /\ psOrder' = NamesOf(providers)
  /\ \E given \in GivenOptions :
       /\ NeedsUuid(given) => wr.uuids < MaxUuids
       /\ wr' = Normalized(given)
  /\ UNCHANGED << providers, offered, routeVars, second, postData, postOrder, postSettled, postUrls,
                  postCompleted, postResult, postCalls, handlers, sinks, pipes,
                  flowing, written, inBuf, receivedBytes, chEnded, chFinished,
                  chEndEmitted, psResult, psCalls >>

\* part_000:327-337
PostStreamCall ==
  /\ call = "none"
  /\ call' = "postStream"
  /\ psPc' = "creating"
  /\ psOrder' = NamesOf(providers)
  /\ UNCHANGED << providers, offered, routeVars, wr, second, postData, postOrder, postSettled, postUrls,
                  postCompleted, postResult, postCalls, handlers, sinks, pipes,
                  flowing, written, inBuf, receivedBytes, chEnded, chFinished,
                  chEndEmitted, psResult, psCalls >>

\* part_000:369-389: one iteration of the for loop, for provider
\* psOrder[Len(handlers) + 1]
CreateSinkStep(bs) ==
  /\ psPc = "creating"
  /\ Len(handlers) < Len(psOrder)
  /\ LET n == psOrder[Len(handlers) + 1]
         pushed == Append(handlers, NewHandler(n))
     IN \E b \in bs, o \in Outcomes(n) :
          /\ b = "sync" \/ o = Nothing
          /\ LET called == IF b = "sync" THEN HandlerCallback(pushed, n, o) ELSE pushed
                 signal == b = "sync" /\ CallbackRuns(pushed, n) /\ AllTerminal(called)
             IN IF CreationFailed(b)
                THEN \* part_000:381-384: cb.call(err, null), no URLs and no bytes
                     /\ handlers' = << >>
                     /\ psResult' = [kind |-> "result", err |-> CreationError(b, n),
                                     urls |-> << >>, bytes |-> 0]
                     /\ psCalls' = psCalls + 1
                     /\ psPc' = "aborted"
                     /\ sinks' = [sinks EXCEPT ![n].mode = b]
                ELSE /\ handlers' = [called EXCEPT ![Len(called)].stream = TRUE]
                     /\ sinks' = [sinks EXCEPT ![n] =
                                    [NoSink EXCEPT !.created = TRUE,
                                                   !.mode = IF b = "sync" THEN "free" ELSE b,
                                                   !.calledBack = (b = "sync")]]
                     /\ IF signal
                        THEN /\ psResult' = Aggregate(called, receivedBytes)
                             /\ psCalls' = psCalls + 1
                        ELSE UNCHANGED << psResult, psCalls >>
                     /\ UNCHANGED psPc
  /\ UNCHANGED << providers, offered, routeVars, postVars, psOrder, pipes, flowing, written, inBuf,
                  receivedBytes, chEnded, chFinished, chEndEmitted >>

CreateSinkFrom(bs) == CreateSinkStep(bs) /\ UNCHANGED << wr, second >>

\* the iteration with the call of provider.postStream(options, callback)
\* (part_000:374) recorded in wr
CreateSinkLogged ==
  /\ CreateSinkStep(Behaviours)
  /\ wr' = [wr EXCEPT !.invoked =
              Append(@, WriteInvocation(psOrder[Len(handlers) + 1], "postStream",
                                        << >>, wr.options))]
  /\ UNCHANGED second

CreateSink == CreateSinkFrom(Behaviours)

\* the same iteration when every provider is of the "good" kind
CreateGoodSink == CreateSinkFrom({"good"})

\* only the first handler's stream is piped
PipedTo_FirstOnly(hs) == IF hs = << >> THEN {} ELSE { StreamOf(hs[1].name) }

\* part_000:410-411: the destinations the input channel is piped to
PipedTo(hs) == { StreamOf(hs[i].name) : i \in 1 .. Len(hs) }

\* the completion is signalled at the return of the channel when no handler
\* is unfinished
ReturnChannel_Signalling ==
  /\ psPc = "creating"
  /\ Len(handlers) = Len(psOrder)
  /\ psPc' = "returned"
  /\ pipes' = PipedTo(handlers)
  /\ flowing' = TRUE
  /\ IF Len(Unfinished(handlers)) = 0
     THEN /\ psResult' = Aggregate(handlers, receivedBytes)
          /\ psCalls' = psCalls + 1
     ELSE UNCHANGED << psResult, psCalls >>
  /\ UNCHANGED << providers, offered, routeVars, wr, second, postVars, psOrder, handlers, sinks, written, inBuf,
                  receivedBytes, chEnded, chFinished, chEndEmitted >>

\* part_000:391-423: every provider supplied a stream; the input channel is
\* created, piped to every handler's stream and returned
ReturnChannel ==
  /\ psPc = "creating"
  /\ Len(handlers) = Len(psOrder)
  /\ psPc' = "returned"
  /\ pipes' = PipedTo(handlers)
  /\ flowing' = TRUE
  /\ UNCHANGED << providers, offered, routeVars, wr, second, postVars, psOrder, handlers, sinks, written, inBuf,
                  receivedBytes, chEnded, chFinished, chEndEmitted, psResult,
                  psCalls >>

\* readable.unpipe(dest): a destination that is not piped changes nothing;
\* removing the last destination stops the flow
Unpipe(ps, dests) == ps \ dests
StillFlowing(before, after, fl) == IF before # {} /\ after = {} THEN FALSE ELSE fl

\* the caller writes a chunk to the input channel
Write ==
  /\ psPc = "returned"
  /\ ~chEnded
  /\ Len(written) < MaxWrites
  /\ \E c \in Chunks :
       /\ written' = Append(written, c)
       /\ inBuf' = Append(inBuf, c)
  /\ UNCHANGED << providers, offered, routeVars, wr, second, postVars, psPc, psOrder, handlers, sinks, pipes,
                  flowing, receivedBytes, chEnded, chFinished, chEndEmitted,
                  psResult, psCalls >>

\* part_000:392-394 and the pipes of 410-411: the input channel emits its
\* next chunk as 'data'
Flow ==
  /\ psPc = "returned"
  /\ flowing
  /\ inBuf # << >>
  /\ inBuf' = Tail(inBuf)
  /\ receivedBytes' = CountBytes(receivedBytes, Head(inBuf))
  /\ sinks' = [n \in Names |->
                 IF StreamOf(n) \in pipes
                 THEN [sinks[n] EXCEPT !.received = Append(@, Head(inBuf))]
                 ELSE sinks[n]]
  /\ UNCHANGED << providers, offered, routeVars, wr, second, postVars, psPc, psOrder, handlers, pipes, flowing,
                  written, chEnded, chFinished, chEndEmitted, psResult, psCalls >>

\* the caller ends the input channel
End ==
  /\ psPc = "returned"
  /\ ~chEnded
  /\ chEnded' = TRUE
  /\ UNCHANGED << providers, offered, routeVars, wr, second, postVars, psPc, psOrder, handlers, sinks, pipes,
                  flowing, written, inBuf, receivedBytes, chFinished,
                  chEndEmitted, psResult, psCalls >>

\* part_000:401-403: what the 'finish' listener passes to unpipe
FinishUnpipes(hs) == { HandlerOf(hs[i].name) : i \in 1 .. Len(hs) }

\* part_000:399-404: the input channel emits 'finish'
Finish ==
  /\ psPc = "returned"
  /\ chEnded
  /\ ~chFinished
  /\ chFinished' = TRUE
  /\ pipes' = Unpipe(pipes, FinishUnpipes(handlers))
  /\ flowing' = StillFlowing(pipes, pipes', flowing)
  /\ UNCHANGED << providers, offered, routeVars, wr, second, postVars, psPc, psOrder, handlers, sinks, written,
                  inBuf, receivedBytes, chEnded, chEndEmitted, psResult, psCalls >>

\* part_000:396-398 and the pipes of 410-411: the input channel emits 'end'
\* after its last chunk; pipe ends every destination still piped
EmitEnd ==
  /\ psPc = "returned"
  /\ chEnded
  /\ flowing
  /\ inBuf = << >>
  /\ ~chEndEmitted
  /\ chEndEmitted' = TRUE
  /\ sinks' = [n \in Names |->
                 IF StreamOf(n) \in pipes
                 THEN [sinks[n] EXCEPT !.ended = TRUE]
                 ELSE sinks[n]]
  /\ UNCHANGED << providers, offered, routeVars, wr, second, postVars, psPc, psOrder, handlers, pipes, flowing,
                  written, inBuf, receivedBytes, chEnded, chFinished, psResult,
                  psCalls >>

\* an ended sink emits 'finish'; pipe then unpipes it
SinkFinish(n) ==
  /\ psPc = "returned"
  /\ sinks[n].ended
  /\ ~sinks[n].finished
  /\ ~sinks[n].errored
  /\ sinks' = [sinks EXCEPT ![n].finished = TRUE]
  /\ pipes' = Unpipe(pipes, {StreamOf(n)})
  /\ flowing' = StillFlowing(pipes, pipes', flowing)
  /\ UNCHANGED << providers, offered, routeVars, wr, second, postVars, psPc, psOrder, handlers, written, inBuf,
                  receivedBytes, chEnded, chFinished, chEndEmitted, psResult,
                  psCalls >>

\* part_000:414-416: a sink emits 'error'; the listener logs, pipe unpipes
\* the sink
SinkError(n) ==
  /\ psPc = "returned"
  /\ sinks[n].created
  /\ sinks[n].mode = "free"
  /\ ~sinks[n].errored
  /\ ~sinks[n].finished
  /\ sinks' = [sinks EXCEPT ![n].errored = TRUE]
  /\ pipes' = Unpipe(pipes, {StreamOf(n)})
  /\ flowing' = StillFlowing(pipes, pipes', flowing)
  /\ UNCHANGED << providers, offered, routeVars, wr, second, postVars, psPc, psOrder, handlers, written, inBuf,
                  receivedBytes, chEnded, chFinished, chEndEmitted, psResult,
                  psCalls >>

\* part_000:360-366 with 339-357: provider n calls back after postStream
\* returned
SinkCallback(n) ==
  /\ psPc \in {"returned", "aborted"}
  /\ sinks[n].created
  /\ ~sinks[n].calledBack
  /\ sinks[n].mode = "good" => sinks[n].finished
  /\ \E o \in Outcomes(n) :
       /\ sinks[n].mode = "good" => o = Success(n)
       /\ LET called == HandlerCallback(handlers, n, o)
          IN /\ handlers' = called
             /\ IF CallbackRuns(handlers, n) /\ AllTerminal(called)
                THEN /\ psResult' = Aggregate(called, receivedBytes)
                     /\ psCalls' = psCalls + 1
                ELSE UNCHANGED << psResult, psCalls >>
  /\ sinks' = [sinks EXCEPT ![n].calledBack = TRUE]
  /\ UNCHANGED << providers, offered, routeVars, wr, second, postVars, psPc, psOrder, pipes, flowing, written,
                  inBuf, receivedBytes, chEnded, chFinished, chEndEmitted >>

\* part_000:360-366 with 339-357: provider n calls the callback it was
\* given once more; nothing in the callback remembers the earlier call
SinkCallbackAgain(n) ==
  /\ psPc = "returned"
  /\ sinks[n].created
  /\ sinks[n].calledBack
  /\ psCalls < MaxCallbacks
  /\ \E o \in Outcomes(n) :
       LET called == HandlerCallback(handlers, n, o)
       IN /\ handlers' = called
          /\ IF CallbackRuns(handlers, n) /\ AllTerminal(called)
             THEN /\ psResult' = Aggregate(called, receivedBytes)
                  /\ psCalls' = psCalls + 1
             ELSE UNCHANGED << psResult, psCalls >>
  /\ UNCHANGED << providers, offered, routeVars, wr, second, postVars, psPc, psOrder, sinks,
                  pipes, flowing, written, inBuf, receivedBytes, chEnded,
                  chFinished, chEndEmitted >>

(* ------------------------ routing, read, delete ------------------------ *)

\* the schemes a caller may ask getProvidersSupportingScheme for
SchemeArgs ==
  { <<"a">>, <<"A">>, <<"b">>, <<"B">>, <<"a", "b">>, <<"A", "B">>, <<"b", "a">> }

\* the URLs a caller may pass: "a:/", "A:/", "b:/", "ab:/", "aB:/", "ba:/",
\* "/a" and ":/"
Urls ==
  { <<"a", ":", "/">>, <<"A", ":", "/">>, <<"b", ":", "/">>,
    <<"a", "b", ":", "/">>, <<"a", "B", ":", "/">>, <<"b", "a", ":", "/">>,
    <<"/", "a">>, <<":", "/">> }

Encodings == {"omitted", "binary"}

InvalidSchemeErr == [kind |-> "invalidScheme"]     \* part_000:170
NoProviderErr == [kind |-> "noProvider"]           \* part_000:180
Found(p) == [kind |-> "provider", entry |-> p]
\* Error.prototype.isPrototypeOf (part_000:232, 239)
IsError_RoutingOnly(v) == v.kind \in {"invalidScheme", "noProvider"}

IsError(v) == v.kind \in {"invalidScheme", "noProvider", "error"}

\* part_000:137-144
GetProvidersSupportingScheme_CaseSensitive(reg, scheme) ==
  SelectSeq(reg, LAMBDA candidate :
     \E i \in 1 .. Len(candidate.schemes) : candidate.schemes[i] = scheme)

GetProvidersSupportingScheme(reg, scheme) ==
  LET upper == ToUpperCase(scheme)
  IN SelectSeq(reg, LAMBDA candidate :
        \E i \in 1 .. Len(candidate.schemes) :
           ToUpperCase(candidate.schemes[i]) = upper)

\* URL.parse(url).protocol (part_000:158, 167): the leading scheme
\* characters up to and including the first colon, in lower case; the empty
\* string stands for null, both are falsy
SchemeChar(ch) == ch \in {"a", "b", "A", "B"}
ParseProtocol(url) ==
  LET ends == { k \in 2 .. Len(url) :
                  url[k] = ":" /\ \A i \in 1 .. k - 1 : SchemeChar(url[i]) }
  IN IF ends = {} THEN << >>
     ELSE ToLowerCase(SubSeq(url, 1, CHOOSE k \in ends : TRUE))

\* part_000:154-189: what getProviderForUrl returns and hands to its callback
GetProviderForUrl_Last(reg, url) ==
  LET scheme == ParseProtocol(url)
  IN IF Len(scheme) < 2 THEN InvalidSchemeErr
     ELSE LET providersWithScheme ==
                GetProvidersSupportingScheme(reg, SubSeq(scheme, 1, Len(scheme) - 1))
          IN IF Len(providersWithScheme) = 0 THEN NoProviderErr
             ELSE Found(providersWithScheme[Len(providersWithScheme)])

GetProviderForUrl_Fallback(reg, url) ==
  LET scheme == ParseProtocol(url)
  IN IF Len(scheme) < 2 THEN InvalidSchemeErr
     ELSE LET providersWithScheme ==
                GetProvidersSupportingScheme(reg, SubSeq(scheme, 1, Len(scheme) - 1))
          IN IF Len(providersWithScheme) = 0
             THEN IF Len(reg) = 0 THEN NoProviderErr ELSE Found(reg[1])
             ELSE Found(providersWithScheme[1])

\* the colon is not cut off the protocol
GetProviderForUrl_KeepColon(reg, url) ==
  LET scheme == ParseProtocol(url)
  IN IF Len(scheme) < 2 THEN InvalidSchemeErr
     ELSE LET providersWithScheme == GetProvidersSupportingScheme(reg, scheme)
          IN IF Len(providersWithScheme) = 0 THEN NoProviderErr
             ELSE Found(providersWithScheme[1])

GetProviderForUrl(reg, url) ==
  LET scheme == ParseProtocol(url)
  IN IF Len(scheme) < 2 THEN InvalidSchemeErr
     ELSE LET providersWithScheme ==
                GetProvidersSupportingScheme(reg, SubSeq(scheme, 1, Len(scheme) - 1))
          IN IF Len(providersWithScheme) = 0 THEN NoProviderErr
             ELSE Found(providersWithScheme[1])

NoCall == [op |-> "none", arg |-> << >>, encoding |-> "omitted"]
NoStream == [open |-> FALSE, bytes |-> 0, events |-> 0, emittedError |-> FALSE,
             emittedEnd |-> FALSE, didCallCallback |-> FALSE]
NotReturned == [kind |-> "none"]
List(ps) == [kind |-> "providers", list |-> ps]
Result(err, value) == [kind |-> "result", err |-> err, value |-> value]
Data(n) == [kind |-> "data", of |-> n]             \* what provider n read
Bytes_(k) == [kind |-> "bytes", count |-> k]
Invocation(n, op, url, encoding) ==
  [name |-> n, op |-> op, url |-> url, encoding |-> encoding]

\* a provider of the routing tests: any scheme list, priority absent or
\* explicit; conforming, or a stream-only provider without a get function
RouteCandidates(n) ==
  { c \in Candidates(n) :
      /\ \/ c.lacks = {}
         \/ c.lacks = {"get"} /\ ~c.hasPriority
      /\ \/ ~c.hasPriority /\ c.priority = 0
         \/ c.hasPriority /\ c.priority \in RegPriorities \ {0} }

\* addProvider(provider) before the read call; the candidate is recorded in
\* offered
AddRouteProvider ==
  /\ rdCall.op = "none"
  /\ OfferedCount < MaxProviders
  /\ \E c \in RouteCandidates(OfferedCount + 1) :
       /\ providers' = AddProviderResult(providers, << c >>)
       /\ offered' = Append(offered, << c >>)
  /\ UNCHANGED << wr, second, postVars, psVars, routeVars >>

\* part_000:137-144
SupportingCall ==
  /\ rdCall.op = "none"
  /\ \E scheme \in SchemeArgs :
       /\ rdCall' = [op |-> "getProvidersSupportingScheme", arg |-> scheme,
                     encoding |-> "omitted"]
       /\ rdReturned' = List(GetProvidersSupportingScheme(providers, scheme))
  /\ UNCHANGED << providers, offered, wr, second, postVars, psVars, rdAnswer, rdInvoked, rdPending,
                  rdStream, rdResult, rdCalls >>

\* part_000:154-189: cb.call(err) or cb.call(null, provider), and the same
\* value returned
RouteCall ==
  /\ rdCall.op = "none"
  /\ \E url \in Urls :
       LET provider == GetProviderForUrl(providers, url)
       IN /\ rdCall' = [op |-> "getProviderForUrl", arg |-> url, encoding |-> "omitted"]
          /\ rdReturned' = provider
          /\ rdResult' = IF IsError(provider) THEN Result(provider, Null)
                         ELSE Result(Null, provider)
          /\ rdCalls' = rdCalls + 1
  /\ UNCHANGED << providers, offered, wr, second, postVars, psVars, rdAnswer, rdInvoked, rdPending,
                  rdStream >>

\* part_000:202-204: the encoding handed to provider.get; with the callback
\* in the place of the encoding it is utf-8
DefaultEncoding_AsGiven(encoding) == encoding

DefaultEncoding(encoding) == IF encoding = "omitted" THEN "utf-8" ELSE encoding

\* part_000:213-218 and 442-447: the final callback of the waterfall
WaterfallFinal(err, result) == Result(err, result)

\* the operation is invoked on every registered provider
WaterfallCall_AllProviders(op, url, encoding) ==
  LET provider == GetProviderForUrl(providers, url)
  IN /\ rdCall' = [op |-> op, arg |-> url, encoding |-> encoding]
     /\ IF IsError(provider)
        THEN /\ rdResult' = WaterfallFinal(provider, Null)
             /\ rdCalls' = rdCalls + 1
             /\ UNCHANGED << rdInvoked, rdPending >>
        ELSE /\ rdInvoked' =
                  [i \in 1 .. Len(providers) |->
                     Invocation(providers[i].name, op, url,
                                IF op = "delete" THEN "none"
                                ELSE DefaultEncoding(encoding))]
             /\ rdPending' = TRUE
             /\ UNCHANGED << rdResult, rdCalls >>

\* part_000:198-219 and 431-448: async.waterfall of getProviderForUrl and
\* the provider's operation; delete passes no encoding
WaterfallCall(op, url, encoding) ==
  LET provider == GetProviderForUrl(providers, url)
  IN /\ rdCall' = [op |-> op, arg |-> url, encoding |-> encoding]
     /\ IF IsError(provider)
        THEN /\ rdResult' = WaterfallFinal(provider, Null)
             /\ rdCalls' = rdCalls + 1
             /\ UNCHANGED << rdInvoked, rdPending >>
        ELSE /\ rdInvoked' = Append(rdInvoked,
                  Invocation(provider.entry.name, op, url,
                             IF op = "delete" THEN "none"
                             ELSE DefaultEncoding(encoding)))
             /\ rdPending' = TRUE
             /\ UNCHANGED << rdResult, rdCalls >>

GetCall ==
  /\ rdCall.op = "none"
  /\ \E url \in Urls, encoding \in Encodings : WaterfallCall("get", url, encoding)
  /\ UNCHANGED << providers, offered, wr, second, postVars, psVars, rdAnswer, rdReturned, rdStream >>

DeleteCall ==
  /\ rdCall.op = "none"
  /\ \E url \in Urls : WaterfallCall("delete", url, "omitted")
  /\ UNCHANGED << providers, offered, wr, second, postVars, psVars, rdAnswer, rdReturned, rdStream >>

\* the pairs (err, result) a provider may hand to doneW: get yields data
\* or an error, delete yields nothing or an error
Answers(n, op) ==
  { [err |-> Err(n), result |-> Null],
    [err |-> Null, result |-> IF op = "get" THEN Data(n) ELSE Null] }

\* part_000:205-218 and 437-446: the provider calls doneW, the final
\* callback of the waterfall hands (err, result) on
WaterfallProviderCallback ==
  /\ rdPending
  /\ \E answer \in Answers(rdInvoked[Len(rdInvoked)].name, rdCall.op) :
       /\ rdAnswer' = Result(answer.err, answer.result)
       /\ rdResult' = WaterfallFinal(answer.err, answer.result)
  /\ rdCalls' = rdCalls + 1
  /\ rdPending' = FALSE
  /\ UNCHANGED << providers, offered, wr, second, postVars, psVars, rdCall, rdInvoked,
                  rdReturned, rdStream >>

\* what provider.getStream(url) may return: a readable stream or an Error
StreamReturns(n) == { [kind |-> "stream", of |-> n], Err(n) }

\* part_000:229-263: getStream; rdAnswer records what the provider returned
GetStreamCall ==
  /\ rdCall.op = "none"
  /\ \E url \in Urls :
       LET provider == GetProviderForUrl(providers, url)
       IN /\ rdCall' = [op |-> "getStream", arg |-> url, encoding |-> "omitted"]
          /\ IF IsError(provider)
             THEN /\ rdResult' = Result(provider, Null)
                  /\ rdCalls' = rdCalls + 1
                  /\ rdReturned' = Null
                  /\ UNCHANGED << rdInvoked, rdAnswer, rdStream >>
             ELSE /\ rdInvoked' = Append(rdInvoked,
                       Invocation(provider.entry.name, "getStream", url, "none"))
                  /\ \E stream \in StreamReturns(provider.entry.name) :
                       /\ rdAnswer' = stream
                       /\ IF IsError(stream)
                          THEN /\ rdResult' = Result(stream, Null)
                               /\ rdCalls' = rdCalls + 1
                               /\ rdReturned' = Null
                               /\ UNCHANGED rdStream
                          ELSE /\ rdStream' = [NoStream EXCEPT !.open = TRUE]
                               /\ rdReturned' = stream
                               /\ UNCHANGED << rdResult, rdCalls >>
  /\ UNCHANGED << providers, offered, wr, second, postVars, psVars, rdPending >>

\* part_000:249, 255: the guard of the 'error' and 'end' listeners
MayCall_Always(stream) == TRUE

MayCall(stream) == ~stream.didCallCallback

\* part_000:247: 'data' listener
ReadData ==
  /\ rdStream.open
  /\ ~rdStream.emittedEnd
  /\ rdStream.events < MaxWrites
  /\ \E chunk \in Chunks :
       rdStream' = [rdStream EXCEPT !.bytes = @ + Len(chunk), !.events = @ + 1]
  /\ UNCHANGED << providers, offered, wr, second, postVars, psVars, rdAnswer, rdCall, rdInvoked,
                  rdPending, rdReturned, rdResult, rdCalls >>

\* part_000:248-253: 'error' listener
ReadError ==
  /\ rdStream.open
  /\ ~rdStream.emittedError
  /\ rdStream' = [rdStream EXCEPT !.emittedError = TRUE, !.didCallCallback = TRUE]
  /\ IF MayCall(rdStream)
     THEN /\ rdResult' = Result(Err(rdReturned.of), Bytes_(rdStream.bytes))
          /\ rdCalls' = rdCalls + 1
     ELSE UNCHANGED << rdResult, rdCalls >>
  /\ UNCHANGED << providers, offered, wr, second, postVars, psVars, rdAnswer, rdCall, rdInvoked,
                  rdPending, rdReturned >>

\* part_000:254-259: 'end' listener
ReadEnd ==
  /\ rdStream.open
  /\ ~rdStream.emittedEnd
  /\ rdStream' = [rdStream EXCEPT !.emittedEnd = TRUE, !.didCallCallback = TRUE]
  /\ IF MayCall(rdStream)
     THEN /\ rdResult' = Result(Null, Bytes_(rdStream.bytes))
          /\ rdCalls' = rdCalls + 1
     ELSE UNCHANGED << rdResult, rdCalls >>
  /\ UNCHANGED << providers, offered, wr, second, postVars, psVars, rdAnswer, rdCall, rdInvoked,
                  rdPending, rdReturned >>

\* no second call was made: its locals do not exist
NoSession == [pc |-> "idle"]

Init ==
  /\ providers = << >>
  /\ offered = << >>
  /\ call = "none"
  /\ postData = << >>
  /\ postOrder = << >>
  /\ postSettled = [n \in Names |-> Idle]
  /\ postUrls = << >>
  /\ postCompleted = 0
  /\ postResult = NoResult
  /\ postCalls = 0
  /\ psPc = "idle"
  /\ psOrder = << >>
  /\ handlers = << >>
  /\ sinks = [n \in Names |-> NoSink]
  /\ pipes = {}
  /\ flowing = FALSE
  /\ written = << >>
  /\ inBuf = << >>
  /\ receivedBytes = 0
  /\ chEnded = FALSE
  /\ chFinished = FALSE
  /\ chEndEmitted = FALSE
  /\ psResult = NoResult
  /\ psCalls = 0
  /\ rdCall = NoCall
  /\ rdInvoked = << >>
  /\ rdPending = FALSE
  /\ rdAnswer = NoResult
  /\ rdReturned = NotReturned
  /\ rdStream = NoStream
  /\ rdResult = NoResult
  /\ rdCalls = 0
  /\ wr = NoWrites
  /\ second = NoSession

Next ==
  \/ AddProvider
  \/ PostCall
  \/ \E n \in Names : PostProviderCallback(n)
  \/ PostStreamCall
  \/ CreateSink
  \/ ReturnChannel
  \/ Write
  \/ Flow
  \/ End
  \/ Finish
  \/ EmitEnd
  \/ \E n \in Names : SinkFinish(n)
  \/ \E n \in Names : SinkError(n)
  \/ \E n \in Names : SinkCallback(n)

Spec == Init /\ [][Next]_vars

\* postStream against providers of the "good" kind only
NextGood ==
  \/ AddProvider
  \/ PostStreamCall
  \/ CreateGoodSink
  \/ ReturnChannel
  \/ Write
  \/ Flow
  \/ End
  \/ Finish
  \/ EmitEnd
  \/ \E n \in Names : SinkFinish(n)
  \/ \E n \in Names : SinkCallback(n)

\* the event loop runs every pending stream event, and a provider of the
\* "good" kind calls back once its stream has finished
LiveSpec ==
  /\ Init /\ [][NextGood]_vars
  /\ WF_vars(Flow)
  /\ WF_vars(EmitEnd)
  /\ \A n \in Names : WF_vars(SinkFinish(n))
  /\ \A n \in Names : WF_vars(SinkCallback(n))

\* postStream against providers that may call back more than once; nothing
\* is written to the input channel
RepeatNext ==
  \/ AddProvider
  \/ PostStreamCall
  \/ CreateSink
  \/ ReturnChannel
  \/ \E n \in Names : SinkCallback(n)
  \/ \E n \in Names : SinkCallbackAgain(n)

RepeatSpec == Init /\ [][RepeatNext]_vars

\* the loop iteration for a provider that returns a stream and calls back
\* later, returns an Error, or returns nothing
CreateSinkOrFail == CreateSinkFrom({"free", "error", "nothing"})

\* postStream against providers that call back only after postStream
\* returned, some of which fail to supply a stream
AbortNext ==
  \/ AddProvider
  \/ PostStreamCall
  \/ CreateSinkOrFail
  \/ ReturnChannel
  \/ \E n \in Names : SinkCallback(n)

AbortSpec == Init /\ [][AbortNext]_vars

\* the write calls with any options, and optionsForOptions by itself; the
\* operations invoked on providers are recorded
OptNext ==
  \/ AddProvider
  \/ OptionsCall
  \/ PostOptionsCall
  \/ \E n \in Names : PostProviderCallback(n)
  \/ PostStreamOptionsCall
  \/ CreateSinkLogged
  \/ ReturnChannel
  \/ \E n \in Names : SinkCallback(n)

OptSpec == Init /\ [][OptNext]_vars

\* the registry alone: addProvider called with arrays of candidates
RegNext == AddProviders

RegSpec == Init /\ [][RegNext]_vars

\* routing, reading and deleting: a registry of providers with any scheme
\* lists, then one call
RouteNext ==
  \/ AddRouteProvider
  \/ SupportingCall
  \/ RouteCall
  \/ GetCall
  \/ DeleteCall
  \/ WaterfallProviderCallback
  \/ GetStreamCall
  \/ ReadData
  \/ ReadError
  \/ ReadEnd

RouteSpec == Init /\ [][RouteNext]_vars

(* ------------------- routing the URLs of a write ----------------------- *)

\* the URLs a provider builds for what it stored: one of its own schemes
\* followed by ":/" (the mock of test/multi-storage.js:414 and 445 declares
\* 'mock' and answers 'mock://someIdentifier')
UrlStrings(p) == { p.schemes[i] \o << ":", "/" >> : i \in 1 .. Len(p.schemes) }

EntryNamed(n) == providers[CHOOSE i \in 1 .. Len(providers) : providers[i].name = n]

\* the URLs the caller's callback received from a write without error
ReturnedUrls ==
  LET of(result) == IF result.kind = "result" /\ IsNull(result.err)
                    THEN { result.urls[i] : i \in 1 .. Len(result.urls) }
                    ELSE {}
  IN of(postResult) \cup of(psResult)

\* post of one byte
PostOneCall == PostCallFrom({<< 1 >>})

\* the loop iteration for a provider that returns a stream and calls back
\* later
CreateFreeSink == CreateSinkFrom({"free"})

\* part_000:154-189: getProviderForUrl(url) with a URL that a write
\* delivered; rdAnswer records which provider's URL it is
RouteReturnedCall ==
  /\ rdCall.op = "none"
  /\ \E u \in ReturnedUrls :
       \E url \in UrlStrings(EntryNamed(u.of)) :
         LET provider == GetProviderForUrl(providers, url)
         IN /\ rdCall' = [op |-> "getProviderForUrl", arg |-> url, encoding |-> "omitted"]
            /\ rdAnswer' = u
            /\ rdReturned' = provider
            /\ rdResult' = IF IsError(provider) THEN Result(provider, Null)
                           ELSE Result(Null, provider)
            /\ rdCalls' = rdCalls + 1
  /\ UNCHANGED << providers, offered, wr, second, postVars, psVars, rdInvoked, rdPending,
                  rdStream >>

RoundTripNext ==
  \/ AddRouteProvider
  \/ PostOneCall
  \/ \E n \in Names : PostProviderCallback(n)
  \/ PostStreamCall
  \/ CreateFreeSink
  \/ ReturnChannel
  \/ \E n \in Names : SinkCallback(n)
  \/ RouteReturnedCall

RoundTripSpec == Init /\ [][RoundTripNext]_vars

(* ---------------------- overlapping postStream calls -------------------- *)

\* part_000:327-424: a second postStream call while the channel of the first
\* is open.  The for loop runs to its end inside the call; every provider
\* returns a stream and calls back later
SecondPostStreamCall ==
  /\ psPc = "returned"
  /\ second.pc = "idle"
  /\ second' = [pc |-> "returned",
                 order |-> NamesOf(providers),
                 handlers |-> [i \in 1 .. Len(providers) |->
                                 [NewHandler(providers[i].name) EXCEPT !.stream = TRUE]],
                 called |-> {}, receivedBytes |-> 0, events |-> 0,
                 result |-> NoResult, calls |-> 0]
  /\ UNCHANGED << providers, offered, routeVars, wr, postVars, psVars >>

\* part_000:392-394: the input channel of the second call emits a chunk
SecondData ==
  /\ second.pc = "returned"
  /\ second.events < MaxWrites
  /\ \E c \in Chunks :
       second' = [second EXCEPT !.receivedBytes = CountBytes(@, c),
                                !.events = @ + 1]
  /\ UNCHANGED << providers, offered, routeVars, wr, postVars, psVars >>

\* part_000:360-366 with 339-357: provider n calls the callback it got in the
\* second call
SecondSinkCallback(n) ==
  /\ second.pc = "returned"
  /\ \E i \in 1 .. Len(second.order) : second.order[i] = n
  /\ n \notin second.called
  /\ \E o \in Outcomes(n) :
       LET called == HandlerCallback(second.handlers, n, o)
           signal == CallbackRuns(second.handlers, n) /\ AllTerminal(called)
       IN second' = [second EXCEPT
                       !.handlers = called,
                       !.called = @ \cup {n},
                       !.result = IF signal THEN Aggregate(called, second.receivedBytes)
                                  ELSE @,
                       !.calls = IF signal THEN @ + 1 ELSE @]
  /\ UNCHANGED << providers, offered, routeVars, wr, postVars, psVars >>

\* two postStream calls in progress at the same time; chunks are written
\* to the channel of the second
OverlapNext ==
  \/ AddProvider
  \/ PostStreamCall
  \/ CreateFreeSink
  \/ ReturnChannel
  \/ \E n \in Names : SinkCallback(n)
  \/ SecondPostStreamCall
  \/ SecondData
  \/ \E n \in Names : SecondSinkCallback(n)

OverlapSpec == Init /\ [][OverlapNext]_vars

(* ------------------------------ claims --------------------------------- *)

PostDelivered == call = "post" /\ postCalls > 0
PostAllSettled == \A i \in 1 .. Len(postOrder) : postSettled[postOrder[i]].state = "settled"
PostFailed == { n \in Names : postSettled[n].state = "settled" /\ ~IsNull(postSettled[n].err) }
PostAllSucceeded ==
  /\ call = "post"
  /\ \A i \in 1 .. Len(postOrder) :
       /\ postSettled[postOrder[i]].state = "settled"
       /\ IsNull(postSettled[postOrder[i]].err)
       /\ ~IsNull(postSettled[postOrder[i]].url)

\* C1: post delivers the caller's completion only when no registered
\* provider's write of that call is still pending.
C1_NotFailFast ==
  PostDelivered => \A n \in Names : postSettled[n].state # "pending"

\* C2: on a post in which every provider produced a URL, the i-th URL of the
\* result is the URL of the i-th provider in registry order.
C2_RegistryOrder ==
  (PostDelivered /\ PostAllSucceeded) =>
     /\ Len(postResult.urls) = Len(postOrder)
     /\ \A i \in 1 .. Len(postOrder) : postResult.urls[i] = Url(postOrder[i])

\* C3: when every registered provider's write reported success with a URL,
\* post has completed once, without error, with one URL per provider (each
\* provider's URL is there) and with the length of the data as byte count.
C3_AllSucceed ==
  PostAllSucceeded =>
     /\ postCalls = 1
     /\ IsNull(postResult.err)
     /\ Len(postResult.urls) = Len(postOrder)
     /\ { postResult.urls[i] : i \in 1 .. Len(postResult.urls) }
          = { Url(postOrder[i]) : i \in 1 .. Len(postOrder) }
     /\ postResult.bytes = Len(postData)

C3_Witness ==
  /\ PostAllSucceeded
  /\ Len(postOrder) = 2
  /\ Len(postData) = 2
  /\ postCalls = 1

\* C4: once every write of a post has settled and k >= 1 of them failed, the
\* error post delivered carries the errors of exactly the k failed providers.
C4_AllErrorsCarried ==
  (PostDelivered /\ PostAllSettled /\ PostFailed # {}) =>
     LET errs == UnderlyingErrors(postResult.err)
     IN /\ Len(errs) = Cardinality(PostFailed)
        /\ { errs[i] : i \in 1 .. Len(errs) } = { Err(n) : n \in PostFailed }

\* C5: a post that fails delivers no URLs to the caller.
C5_NoUrlsOnFailure ==
  (PostDelivered /\ ~IsNull(postResult.err)) => postResult.urls = << >>

C7_CreationAbort ==
  \A n \in Names :
     sinks[n].mode \in {"error", "nothing"} =>
        /\ psPc = "aborted"
        /\ pipes = {}
        /\ psCalls >= 1
        /\ psResult.err = (IF sinks[n].mode = "error" THEN Err(n) ELSE CreateErr(n))

C7_Witness ==
  /\ psPc = "aborted"
  /\ Len(psOrder) = 2
  /\ sinks[psOrder[1]].created
  /\ sinks[psOrder[2]].mode = "nothing"
  /\ psResult.err = CreateErr(psOrder[2])

\* C8: every sink of the session that has not emitted an error has received
\* the chunks the input channel emitted so far, in the order they were
\* written: what it received followed by what is still buffered is what the
\* caller wrote, and once the input channel has emitted 'end' it has received
\* everything.
C8_Broadcast ==
  psPc = "returned" =>
     \A i \in 1 .. Len(handlers) :
        LET sink == sinks[handlers[i].name]
        IN (~sink.errored) =>
              /\ sink.received \o inBuf = written
              /\ chEndEmitted => sink.received = written

C8_Witness ==
  /\ psPc = "returned"
  /\ Len(handlers) = 2
  /\ chEndEmitted
  /\ Len(written) = 2
  /\ written[1] # written[2]
  /\ \A i \in 1 .. Len(handlers) : sinks[handlers[i].name].received = written

\* the completion signal of a fully successful session: delivered once,
\* without error, with the bytes written and one URL per provider
SignalOk ==
  /\ psCalls = 1
  /\ IsNull(psResult.err)
  /\ psResult.bytes = SeqSum(written)
  /\ Len(psResult.urls) = Len(psOrder)

\* C9 as stated: for any number N of providers that report success once
\* their sink has finished, ending the input channel leads to the completion
\* signal with the bytes written and N URLs.
C9_AnyRegistry == (psPc = "returned" /\ chEnded) ~> SignalOk

\* C9, amended: the same for N >= 1 providers.
C9_EventualSignal ==
  (psPc = "returned" /\ chEnded /\ Len(psOrder) >= 1) ~> SignalOk

C9_Witness ==
  /\ SignalOk
  /\ chEnded
  /\ Len(psOrder) = 2
  /\ Len(written) = 2
  /\ psResult.bytes > Len(written)

\* C10: when the creation phase succeeds, the completion signal is not
\* delivered before postStream has returned the input channel.
C10_ChannelFirst ==
  (psCalls > 0 /\ psPc # "aborted") => psPc = "returned"

C10_Witness ==
  /\ psPc = "returned"
  /\ psCalls = 1
  /\ Len(handlers) >= 1
  /\ IsNull(psResult.err)
  /\ ~chEnded

PsFailed(h) == ~IsNull(h.error)
PsTerminal(h) == (~IsNull(h.error)) \/ (~IsNull(h.url))

\* C11: when a sink of a postStream session has emitted an error, its handle
\* is recorded as failed, the sinks of the other providers stay piped until
\* they finish or fail themselves, and once every other handle is terminal
\* the completion signal was delivered and reports failure.
C11_SinkErrorRecorded ==
  psPc = "returned" =>
     \A i \in 1 .. Len(handlers) :
        sinks[handlers[i].name].errored =>
           /\ PsFailed(handlers[i])
           /\ \A j \in 1 .. Len(handlers) :
                LET other == sinks[handlers[j].name]
                IN (j # i /\ ~other.errored /\ ~other.finished) =>
                      StreamOf(handlers[j].name) \in pipes
           /\ (\A j \in 1 .. Len(handlers) : j # i => PsTerminal(handlers[j])) =>
                 (psCalls >= 1 /\ ~IsNull(psResult.err))

\* C12: when the completion signal of a postStream session was delivered
\* with k >= 1 failed handles, it is an aggregate error that carries exactly
\* the errors of the k failed handles, and it carries no URLs.
C12_AggregateNoUrls ==
  (psPc = "returned" /\ psCalls > 0
     /\ \E i \in 1 .. Len(handlers) : PsFailed(handlers[i])) =>
     /\ psResult.err.kind = "aggregate"
     /\ UnderlyingErrors(psResult.err) = MapError(SelectSeq(handlers, PsFailed))
     /\ psResult.urls = << >>

\* C13: whenever a provider's completion callback arrives after postStream
\* returned, the provider's handle is terminal afterwards: it holds the URL
\* that was reported, and it is failed when no URL was reported, with or
\* without an error.
C13_MissingUrlFails ==
  [][ \A i \in 1 .. Len(handlers) :
        (/\ psPc = "returned"
         /\ ~sinks[handlers[i].name].calledBack
         /\ sinks'[handlers[i].name].calledBack) =>
           PsTerminal(handlers'[i]) ]_vars

(* --------------------------- registry claims --------------------------- *)

OfferedCandidates ==
  UNION { { offered[k][i] : i \in 1 .. Len(offered[k]) } : k \in 1 .. Len(offered) }

CandidateOf(n) == CHOOSE c \in OfferedCandidates : c.name = n

\* what the specification requires of a provider
Required == {"name", "schemes", "getStream", "postStream", "delete"}
LacksRequired(c) == c.lacks \cap Required # {}

\* C14: every candidate handed to addProvider that has name, schemes,
\* getStream, postStream and delete is in the registry, also when it has no
\* get and/or no post function.
C14_ScalarOptional ==
  \A c \in OfferedCandidates : ~LacksRequired(c) => c.name \in RegistryNames

\* C15: on every addProvider call, no candidate of the call that lacks name,
\* schemes, getStream, postStream or delete is in the registry afterwards;
\* every entry that is new is a candidate of the call lacking none of them;
\* the entries that were registered before keep their order and priorities;
\* and a call that rejects all its candidates leaves the registry as it was.
C15_RejectionIsFilter ==
  [][ offered' # offered =>
        LET batch == offered'[Len(offered')]
            before == RegistryNames
            WasRegistered(e) == e.name \in before
        IN /\ \A i \in 1 .. Len(batch) :
                LacksRequired(batch[i]) =>
                   \A j \in 1 .. Len(providers') : providers'[j].name # batch[i].name
           /\ \A j \in 1 .. Len(providers') :
                providers'[j].name \notin before =>
                   \E i \in 1 .. Len(batch) :
                      batch[i].name = providers'[j].name /\ ~LacksRequired(batch[i])
           /\ SelectSeq(providers', WasRegistered) = providers
           /\ (\A i \in 1 .. Len(batch) : LacksRequired(batch[i])) =>
                 providers' = providers ]_vars

C15_Witness ==
  /\ Len(offered) >= 2
  /\ Len(providers) >= 1
  /\ \E i \in 1 .. Len(offered[Len(offered)]) :
        LacksRequired(offered[Len(offered)][i])

\* a candidate whose priority addProvider assigns: the property is absent or 0
Defaulted(c) == (~c.hasPriority) \/ c.priority = 0

\* C16: of two registered providers that were admitted without an explicit
\* priority, the one admitted earlier has the strictly lower priority
\* (candidates are numbered in the order in which they are handed over, so
\* the lower name was admitted earlier).
C16_DefaultsIncrease ==
  \A i, j \in 1 .. Len(providers) :
     LET ci == CandidateOf(providers[i].name)
         cj == CandidateOf(providers[j].name)
     IN (Defaulted(ci) /\ Defaulted(cj) /\ ci.name < cj.name) =>
           providers[i].priority < providers[j].priority

C16_Witness ==
  \E i, j \in 1 .. Len(providers) :
     /\ providers[i].name < providers[j].name
     /\ ~CandidateOf(providers[i].name).hasPriority
     /\ ~CandidateOf(providers[j].name).hasPriority

\* C17: in every state, that is after every addProvider call, no registry
\* entry has a lower priority than an entry that follows it.
C17_SortedDescending ==
  \A i, j \in 1 .. Len(providers) :
     i < j => providers[i].priority >= providers[j].priority

C17_Witness ==
  \E i, j \in 1 .. Len(providers) :
     /\ i < j
     /\ providers[i].name > providers[j].name
     /\ providers[i].priority > providers[j].priority
     /\ CandidateOf(providers[i].name).hasPriority # CandidateOf(providers[j].name).hasPriority

(* ---------------------------- routing claims --------------------------- *)

\* two strings are equal up to the case of their letters
SameLetter(x, y) == x = y \/ {x, y} = {"a", "A"} \/ {x, y} = {"b", "B"}
EqualIgnoringCase(str1, str2) ==
  Len(str1) = Len(str2) /\ \A i \in 1 .. Len(str1) : SameLetter(str1[i], str2[i])
Declares(p, scheme) ==
  \E i \in 1 .. Len(p.schemes) : EqualIgnoringCase(p.schemes[i], scheme)
Supporters(scheme) == { i \in 1 .. Len(providers) : Declares(providers[i], scheme) }

\* the scheme of a URL: the letters before its first colon
HasScheme(url) ==
  \E k \in 2 .. Len(url) : url[k] = ":" /\ \A i \in 1 .. k - 1 : SchemeChar(url[i])
UrlScheme(url) ==
  SubSeq(url, 1, (CHOOSE k \in 1 .. Len(url) :
                     url[k] = ":" /\ \A i \in 1 .. k - 1 : url[i] # ":") - 1)

\* C18: getProvidersSupportingScheme(S) returns exactly the registry entries
\* that declare a scheme equal to S up to case, in registry order, which is
\* descending priority; the list is empty when no entry declares S.
C18_SupportingExact ==
  rdCall.op = "getProvidersSupportingScheme" =>
     /\ rdReturned.kind = "providers"
     /\ rdReturned.list =
           SelectSeq(providers, LAMBDA p : Declares(p, rdCall.arg))
     /\ \A i, j \in 1 .. Len(rdReturned.list) :
           i < j => rdReturned.list[i].priority >= rdReturned.list[j].priority
     /\ Supporters(rdCall.arg) = {} => rdReturned.list = << >>

C18_Witness ==
  /\ rdCall.op = "getProvidersSupportingScheme"
  /\ rdReturned.kind = "providers"
  /\ Len(rdReturned.list) >= 1
  /\ Len(rdReturned.list) < Len(providers)
  /\ \A i \in 1 .. Len(rdReturned.list[1].schemes) :
        rdReturned.list[1].schemes[i] # rdCall.arg

\* C19: for a URL with a scheme that at least one registry entry declares,
\* getProviderForUrl returns and hands to its callback the first registry
\* entry declaring the scheme; no declaring entry has a higher priority.
C19_FirstSupporting ==
  (/\ rdCall.op = "getProviderForUrl"
   /\ HasScheme(rdCall.arg)
   /\ Supporters(UrlScheme(rdCall.arg)) # {}) =>
     LET sup == Supporters(UrlScheme(rdCall.arg))
         first == CHOOSE i \in sup : \A j \in sup : i <= j
     IN /\ rdReturned.kind = "provider"
        /\ rdReturned.entry = providers[first]
        /\ Declares(rdReturned.entry, UrlScheme(rdCall.arg))
        /\ \A j \in sup : rdReturned.entry.priority >= providers[j].priority
        /\ rdCalls = 1
        /\ IsNull(rdResult.err)
        /\ rdResult.value = rdReturned

C19_Witness ==
  /\ rdCall.op = "getProviderForUrl"
  /\ HasScheme(rdCall.arg)
  /\ Cardinality(Supporters(UrlScheme(rdCall.arg))) >= 2
  /\ rdReturned.kind = "provider"
  /\ \E j \in Supporters(UrlScheme(rdCall.arg)) :
        providers[j].priority < rdReturned.entry.priority

\* C20: for a URL with a scheme that no registry entry declares,
\* getProviderForUrl returns the no-provider error, also when the registry
\* is not empty, and get, getStream and delete hand that error to the
\* caller's callback, once, without invoking an operation of any provider;
\* getStream returns null.
C20_NoFallback ==
  (/\ rdCall.op \in {"getProviderForUrl", "get", "getStream", "delete"}
   /\ HasScheme(rdCall.arg)
   /\ Supporters(UrlScheme(rdCall.arg)) = {}) =>
     /\ rdInvoked = << >>
     /\ ~rdPending
     /\ rdCalls = 1
     /\ rdResult.kind = "result"
     /\ rdResult.err.kind = "noProvider"
     /\ rdCall.op = "getProviderForUrl" => rdReturned.kind = "noProvider"
     /\ rdCall.op = "getStream" => IsNull(rdReturned)

C20_Witness ==
  /\ rdCall.op \in {"get", "getStream", "delete"}
  /\ Len(providers) >= 1
  /\ HasScheme(rdCall.arg)
  /\ Supporters(UrlScheme(rdCall.arg)) = {}
  /\ rdCalls = 1

(* ------------------------- read and delete claims ---------------------- *)

\* the provider the router resolves for the URL of the call: the first
\* registry entry that declares the URL's scheme
Routable == HasScheme(rdCall.arg) /\ Supporters(UrlScheme(rdCall.arg)) # {}
Resolved ==
  providers[CHOOSE i \in Supporters(UrlScheme(rdCall.arg)) :
               \A j \in Supporters(UrlScheme(rdCall.arg)) : i <= j]

\* the caller's callback got nothing while the provider has not answered,
\* and got exactly the provider's answer, once, afterwards
DeliveredOnce(op) ==
  IF rdPending
  THEN rdCalls = 0 /\ rdResult.kind = "none"
  ELSE /\ rdCalls = 1
       /\ rdAnswer \in { Result(a.err, a.result) : a \in Answers(Resolved.name, op) }
       /\ rdResult = rdAnswer

\* C22: a get call on a routable URL has invoked get of the resolved
\* provider, once, with the URL and the encoding given, utf-8 when the
\* encoding was omitted, and no operation of any other provider; the
\* caller's callback receives the provider's (err, data) unchanged, once.
C22_GetDelegates ==
  (rdCall.op = "get" /\ Routable) =>
     /\ rdInvoked =
          << Invocation(Resolved.name, "get", rdCall.arg,
                        IF rdCall.encoding = "omitted" THEN "utf-8"
                        ELSE rdCall.encoding) >>
     /\ DeliveredOnce("get")

C22_Witness ==
  /\ rdCall.op = "get"
  /\ rdCall.encoding = "omitted"
  /\ Len(providers) >= 2
  /\ Routable
  /\ ~rdPending
  /\ rdResult.kind = "result"
  /\ rdResult.value = Data(Resolved.name)

\* the provider whose URL was routed, and its place in the registry
Producer == rdAnswer.of
ProducerIndex == CHOOSE i \in 1 .. Len(providers) : providers[i].name = Producer
RoutedReturned == rdCall.op = "getProviderForUrl" /\ rdAnswer.kind = "url"

\* C21 as stated: routing a URL that a successful post or postStream
\* delivered, built by its provider on one of its own schemes, yields the
\* provider that produced the URL.
C21_RoundTripAlways ==
  RoutedReturned =>
    rdReturned.kind = "provider" /\ rdReturned.entry.name = Producer

\* C21: routing such a URL never fails and yields the first registry entry
\* that declares the URL's scheme up to case; this is the provider that
\* produced the URL exactly when no entry before it in the registry declares
\* that scheme.
C21_RoundTripFirstDeclarer ==
  RoutedReturned =>
    LET scheme == UrlScheme(rdCall.arg)
    IN /\ rdReturned.kind = "provider"
       /\ rdResult = Result(Null, rdReturned)
       /\ Declares(rdReturned.entry, scheme)
       /\ rdReturned.entry.name = Producer
            <=> \A j \in 1 .. ProducerIndex - 1 : ~Declares(providers[j], scheme)

\* the routed URL's scheme is declared by two entries, and the URL came from
\* the second of them
C21_Witness ==
  /\ RoutedReturned
  /\ Cardinality(Supporters(UrlScheme(rdCall.arg))) = 2
  /\ rdReturned.kind = "provider"
  /\ rdReturned.entry.name # Producer

\* C23: when the only candidate handed to addProvider that declares the
\* scheme of the URL has getStream but no get function, a get call on the URL
\* opens that provider's stream.
C23_StreamFallback ==
  (rdCall.op = "get" /\ HasScheme(rdCall.arg)) =>
    \A c \in OfferedCandidates :
      ( /\ c.lacks = {"get"}
        /\ Declares(c, UrlScheme(rdCall.arg))
        /\ \A d \in OfferedCandidates : Declares(d, UrlScheme(rdCall.arg)) => d = c )
      => \E i \in 1 .. Len(rdInvoked) :
           rdInvoked[i].name = c.name /\ rdInvoked[i].op = "getStream"

\* C29: a delete call on a routable URL has invoked delete of the resolved
\* provider, once, and no operation of any other provider; the caller's
\* callback receives the provider's success or error, once.
C29_DeleteDelegates ==
  (rdCall.op = "delete" /\ Routable) =>
     /\ rdInvoked = << Invocation(Resolved.name, "delete", rdCall.arg, "none") >>
     /\ DeliveredOnce("delete")

C29_Witness ==
  /\ rdCall.op = "delete"
  /\ Len(providers) >= 2
  /\ Routable
  /\ ~rdPending
  /\ rdResult.kind = "result"
  /\ rdResult.err = Err(Resolved.name)

\* C24: when getStream returned a stream, the first error or end event of
\* the stream invokes the caller's callback, with the stream's error for an
\* error event and without an error for an end event, and with the bytes
\* counted so far; a later error or end event changes nothing the caller
\* received.
C24_CallbackAtMostOnce ==
  [][ (rdReturned.kind = "stream" /\ rdStream'.open) =>
        /\ rdCalls' <= 1
        /\ (rdStream'.emittedError /\ ~rdStream.emittedError /\ ~rdStream.emittedEnd) =>
              /\ rdCalls' = 1
              /\ rdResult' = Result(Err(rdReturned.of), Bytes_(rdStream.bytes))
        /\ (rdStream'.emittedEnd /\ ~rdStream.emittedEnd /\ ~rdStream.emittedError) =>
              /\ rdCalls' = 1
              /\ rdResult' = Result(Null, Bytes_(rdStream.bytes))
        /\ (rdStream.emittedError \/ rdStream.emittedEnd) =>
              (rdCalls' = rdCalls /\ rdResult' = rdResult) ]_vars

C24_Witness ==
  /\ rdCall.op = "getStream"
  /\ rdStream.emittedError
  /\ rdStream.emittedEnd
  /\ rdStream.bytes > 0
  /\ rdCalls = 1

\* C25: when the router answers getStream's URL with an error, or the
\* resolved provider returns an Error from its getStream, getStream returns
\* null, creates no stream listeners, and has invoked the caller's callback
\* exactly once with that error.
C25_NoStreamOnError ==
  rdCall.op = "getStream" =>
     /\ (~HasScheme(rdCall.arg)) =>
           (/\ IsNull(rdReturned) /\ rdCalls = 1 /\ ~rdStream.open
            /\ rdResult.err.kind = "invalidScheme" /\ rdInvoked = << >>)
     /\ (HasScheme(rdCall.arg) /\ ~Routable) =>
           (/\ IsNull(rdReturned) /\ rdCalls = 1 /\ ~rdStream.open
            /\ rdResult.err.kind = "noProvider" /\ rdInvoked = << >>)
     /\ (Routable /\ rdAnswer.kind = "error") =>
           (/\ IsNull(rdReturned) /\ rdCalls = 1 /\ ~rdStream.open
            /\ rdResult.err = rdAnswer
            /\ rdAnswer = Err(Resolved.name))

C25_Witness ==
  /\ rdCall.op = "getStream"
  /\ Routable
  /\ rdAnswer.kind = "error"
  /\ IsNull(rdReturned)
  /\ rdCalls = 1

(* --------------------------- session claims ---------------------------- *)

\* C30: a handle that holds a URL or an error keeps exactly that URL and
\* error in every later step, and once the completion signal was delivered
\* no step delivers another or a different one.
C30_NoRegress ==
  [][ /\ \A i \in 1 .. Len(handlers) :
           PsTerminal(handlers[i]) =>
              (i <= Len(handlers') /\ handlers'[i] = handlers[i])
      /\ psCalls >= 1 => (psCalls' = psCalls /\ psResult' = psResult) ]_vars

(* ---------------------------- option claims ---------------------------- *)

Supplied(field) == field \in wr.given.has

\* the defaults of encoding and path, and one record for every provider
NormalizedRest ==
  /\ Supplied("encoding") => wr.options.encoding = wr.given.encoding
  /\ Supplied("path") => wr.options.path = wr.given.path
  /\ ~Supplied("encoding") => wr.options.encoding = "utf-8"
  /\ ~Supplied("path") => wr.options.path = ""
  /\ \A i \in 1 .. Len(wr.invoked) : wr.invoked[i].options = wr.options
  /\ call = "post" => Len(wr.invoked) = Len(postOrder)
  /\ call = "postStream" => (psPc = "returned" => Len(wr.invoked) = Len(psOrder))

\* C26 as stated: after normalization every supplied encoding, path and
\* name without % is unchanged, a missing encoding is utf-8, a missing path
\* is the empty string, a missing name is the identifier just generated, and
\* every provider invoked by post or postStream received this record.
C26_SuppliedKept ==
  wr.called =>
     /\ NormalizedRest
     /\ (Supplied("name") /\ ~HasPlaceholder(wr.given.name)) =>
           wr.options.name = wr.given.name
     /\ ~Supplied("name") =>
           (wr.uuids >= 1 /\ wr.options.name = Uuid(wr.uuids))

\* C26 amended: the same, for supplied names that are not empty; an empty
\* name is replaced by a generated identifier like a missing one.
C26_NonEmptyKept ==
  wr.called =>
     /\ NormalizedRest
     /\ (Supplied("name") /\ wr.given.name # << >> /\ ~HasPlaceholder(wr.given.name)) =>
           wr.options.name = wr.given.name
     /\ (~Supplied("name") \/ wr.given.name = << >>) =>
           (wr.uuids >= 1 /\ wr.options.name = Uuid(wr.uuids) /\ wr.options.name # << >>)

C26_Witness ==
  /\ wr.called
  /\ call = "postStream"
  /\ Len(wr.invoked) >= 2
  /\ Supplied("name")
  /\ wr.given.name = << >>
  /\ Supplied("path")
  /\ ~Supplied("encoding")

\* C27: a supplied name that holds a % is normalized to the same name with
\* its first % replaced by the identifier just generated: the characters
\* before the first % and all characters after it, further % included, are
\* unchanged, and the result is longer than the name given.
C27_FirstPlaceholder ==
  (wr.called /\ Supplied("name") /\ HasPlaceholder(wr.given.name)) =>
     LET name == wr.given.name
         out == wr.options.name
         id == Uuid(wr.uuids)
         first == CHOOSE i \in 1 .. Len(name) :
                     name[i] = "%" /\ \A j \in 1 .. i - 1 : name[j] # "%"
     IN /\ wr.uuids >= 1
        /\ Len(out) = Len(name) - 1 + Len(id)
        /\ Len(out) > Len(name)
        /\ \A j \in 1 .. first - 1 : out[j] = name[j]
        /\ \A j \in 1 .. Len(id) : out[first - 1 + j] = id[j]
        /\ \A j \in first + 1 .. Len(name) : out[j - 1 + Len(id)] = name[j]

C27_Witness ==
  /\ wr.called
  /\ Supplied("name")
  /\ wr.given.name = <<"n", "%", "n", "%">>
  /\ wr.options.name = <<"n">> \o Uuid(wr.uuids) \o <<"n", "%">>

\* C28: after a post call, in every later state, the operations invoked on
\* providers are exactly one post per provider registered at the call
\* (postOrder), in registry order, each with the data and the normalized options of the call: no
\* provider is called again after a failure and no delete is invoked.
C28_PostInvokesEachOnce ==
  call = "post" =>
     /\ Len(wr.invoked) = Len(postOrder)
     /\ \A i \in 1 .. Len(wr.invoked) :
           wr.invoked[i] = WriteInvocation(postOrder[i], "post", postData, wr.options)

C28_Witness ==
  /\ call = "post"
  /\ Len(postOrder) >= 2
  /\ postCalls = 1
  /\ PostFailed # {}
  /\ \E n \in Names : postSettled[n].state = "settled" /\ IsNull(postSettled[n].err)

(* ------------------- channel end and registry claims ------------------- *)

\* C31: once the input channel returned by postStream has emitted 'finish',
\* no sink is piped to it any more.
C31_DetachedOnFinish == chFinished => pipes = {}

\* the entry a candidate became
EntryOf(reg, n) == reg[CHOOSE k \in 1 .. Len(reg) : reg[k].name = n]
Admitted(reg, n) == \E k \in 1 .. Len(reg) : reg[k].name = n

\* C32: on every addProvider call, a candidate that carries no priority and
\* is admitted gets the size the registry had before the call, plus the
\* number of candidates of the same call admitted before it, plus 1.
C32_DefaultPriority ==
  [][ offered' # offered =>
        LET batch == offered'[Len(offered')]
        IN \A i \in 1 .. Len(batch) :
             (Admitted(providers', batch[i].name) /\ ~batch[i].hasPriority) =>
                EntryOf(providers', batch[i].name).priority =
                  Len(providers)
                  + Cardinality({ j \in 1 .. i - 1 : Admitted(providers', batch[j].name) })
                  + 1 ]_vars

\* one call handed over two candidates without priority: the second counts
\* the first
C32_Witness ==
  /\ Len(offered) = 1
  /\ Len(offered[1]) = 2
  /\ Len(providers) = 2
  /\ \A k \in 1 .. 2 : ~CandidateOf(providers[k].name).hasPriority
  /\ providers[1].name = offered[1][2].name /\ providers[1].priority = 2
  /\ providers[2].name = offered[1][1].name /\ providers[2].priority = 1

\* C33: every registered provider that carried a priority when it was handed
\* to addProvider, 0 and negative values included, has that priority in
\* every later state.
C33_PriorityKept ==
  \A k \in 1 .. Len(providers) :
     CandidateOf(providers[k].name).hasPriority =>
        providers[k].priority = CandidateOf(providers[k].name).priority

\* C34: of two registry entries of equal priority the one admitted earlier
\* (the lower name) comes first, in every state, and a URL of a scheme both
\* declare is not routed to the later one.
C34_StableTies ==
  \A i, j \in 1 .. Len(providers) :
     (providers[i].priority = providers[j].priority
        /\ providers[i].name < providers[j].name) =>
       /\ i < j
       /\ \A s \in SchemeArgs :
            (Declares(providers[i], s) /\ Declares(providers[j], s)) =>
               GetProviderForUrl(providers, s \o << ":", "/" >>) # Found(providers[j])

\* an explicit priority equal to the default of a later provider
C34_Witness ==
  \E i, j \in 1 .. Len(providers) :
     /\ i < j
     /\ providers[i].priority = providers[j].priority
     /\ CandidateOf(providers[i].name).hasPriority
     /\ ~CandidateOf(providers[j].name).hasPriority
     /\ Declares(providers[i], << "a" >>) /\ Declares(providers[j], << "a" >>)

(* --------------------------- session claims ---------------------------- *)

\* C35: after a postStream call was aborted in its creation phase, the
\* caller's callback has been invoked exactly once, with the error of the
\* provider that supplied no stream, no URLs and no bytes; this stays so
\* when sinks created before the abort call back afterwards.
C35_AbortSignalsOnce ==
  psPc = "aborted" =>
     /\ psCalls = 1
     /\ \E n \in Names :
          /\ sinks[n].mode \in {"error", "nothing"}
          /\ psResult = [kind |-> "result", err |-> CreationError(sinks[n].mode, n),
                         urls |-> << >>, bytes |-> 0]

\* a sink created before the abort has called back after it
C35_Witness ==
  /\ psPc = "aborted"
  /\ \E n \in Names : sinks[n].created /\ sinks[n].calledBack

\* C36: the caller's callback of a post call is never invoked twice, and it
\* has been invoked once as soon as every provider has called back or one
\* provider has called back with an error, whatever the order of the
\* providers' callbacks and whatever the others do afterwards.
C36_PostCallbackOnce ==
  call = "post" =>
     /\ postCalls <= 1
     /\ (PostAllSettled \/ PostFailed # {}) => postCalls = 1

\* two providers failed
C36_Witness ==
  /\ call = "post"
  /\ Cardinality(PostFailed) = 2
  /\ postCalls = 1

\* C37: a postStream call made with an empty registry never invokes the
\* caller's callback: not when the input channel is returned, not when
\* chunks are written to it, and not when it has ended and finished.
C37_EmptyNeverSignals ==
  (call = "postStream" /\ psOrder = << >>) =>
     psCalls = 0 /\ psResult = NoResult

\* the channel of such a call took two chunks, ended and finished
C37_Witness ==
  /\ psPc = "returned"
  /\ psOrder = << >>
  /\ Len(written) = 2
  /\ inBuf = << >>
  /\ chFinished
  /\ chEndEmitted
  /\ psCalls = 0

\* C38: whatever a provider does inside its postStream call, a synchronous
\* completion callback included, the handle stored for it at the return of
\* the call holds the stream and neither URL nor error, the other handles
\* are as before and the caller's callback was not invoked; and a handle
\* changes only by a callback made after postStream has returned.
C38_SyncIgnored ==
  [][ /\ Len(handlers') = Len(handlers) + 1 =>
           /\ handlers' = Append(handlers,
                  [NewHandler(psOrder[Len(handlers) + 1]) EXCEPT !.stream = TRUE])
           /\ psCalls' = psCalls
           /\ psResult' = psResult
      /\ \A i \in 1 .. Len(handlers) :
           (i <= Len(handlers') /\ handlers'[i] # handlers[i]) => psPc = "returned" ]_vars

\* a provider called back inside its postStream call and its handle is
\* pending
C38_Witness ==
  /\ psPc = "creating"
  /\ \E i \in 1 .. Len(handlers) :
       /\ sinks[handlers[i].name].calledBack
       /\ handlers[i].stream
       /\ IsNull(handlers[i].url) /\ IsNull(handlers[i].error)

\* the outcome a postStream call reports from its own handler table and its
\* own byte counter
OwnOutcome(hs, bytes) ==
  LET withUrl == SelectSeq(hs, LAMBDA h : ~IsNull(h.url))
      withError == SelectSeq(hs, LAMBDA h : ~IsNull(h.error))
  IN [kind |-> "result",
      err |-> IF Len(withError) > 0
              THEN AggregateErr([i \in 1 .. Len(withError) |-> withError[i].error])
              ELSE Null,
      urls |-> [i \in 1 .. Len(withUrl) |-> withUrl[i].url],
      bytes |-> bytes]

FirstSession == << psPc, psOrder, handlers, sinks, pipes, flowing, written, inBuf,
                  receivedBytes, psResult, psCalls >>

============================================================================
